---- MODULE Spec2Model ----
(***************************************************************************)
(* Mile.Xaml/Mile.Project.Properties.h as seen by the C preprocessor.      *)
(*                                                                         *)
(* The header is a list of directives.  A translation unit (a resource     *)
(* script or a source file of the build) includes it, possibly more than   *)
(* once; the preprocessor walks the directives one at a time, keeping a    *)
(* macro table and a stack of conditional groups; the build tool then      *)
(* reads the macros to fill the version resource of Mile.Xaml.dll.         *)
(***************************************************************************)
EXTENDS Integers, Sequences, FiniteSets, TLC

VARIABLES
    macros,       \* the macro table: defined macro name -> replacement token
    pc,           \* index in Header of the next directive; 0 = not in the header
    conds,        \* stack of conditional groups: TRUE = group is being processed
    inclusions,   \* how many times the translation unit has included the header
    defCount,     \* per macro name: how many #define directives were executed
    includeLog,   \* the files the header has included, in order
    diag,         \* the diagnostics the preprocessor has issued
    lastRead,     \* what the build tool last read: <<name, token>>
    fileVersion   \* the four 16-bit words stamped into the version resource

vars == <<macros, pc, conds, inclusions, defCount, includeLog, diag,
          lastRead, fileVersion>>

\* How many times one translation unit includes the header.
MaxInclusions == 3

-----------------------------------------------------------------------------
(* Replacement tokens *)

IntLit(n) == [kind |-> "int", val |-> n]
StrLit(s) == [kind |-> "string", val |-> s]
WideStrLit(s) == [kind |-> "wstring", val |-> s]
\* `#define NAME` with an empty replacement list
Empty == [kind |-> "empty", val |-> ""]
\* an identifier that names no macro is left as it is
Identifier(n) == [kind |-> "identifier", val |-> n]

-----------------------------------------------------------------------------
(* The replacement lists of the header, line by line *)

MILE_PROJECT_PROPERTIES == Empty

MILE_PROJECT_VERSION_MAJOR == IntLit(1)
MILE_PROJECT_VERSION_MINOR == IntLit(0)
\* the build number of the previous release, left unbumped
BuildNotBumped == IntLit(359)
\* a build number that no longer fits in 16 bits
BuildTooLarge == IntLit(65896)
MILE_PROJECT_VERSION_BUILD == IntLit(360)
MILE_PROJECT_VERSION_REVISION == IntLit(0)

\* line 19 is a comment: the tag is not defined in this configuration
MILE_PROJECT_VERSION_TAG == WideStrLit("Alpha 1")

MILE_PROJECT_COMPANY_NAME == StrLit("Project Mile")
MILE_PROJECT_FILE_DESCRIPTION == StrLit("Mile.Xaml")
MILE_PROJECT_INTERNAL_NAME == StrLit("Mile.Xaml")
MILE_PROJECT_LEGAL_COPYRIGHT == StrLit("© Project Mile. All rights reserved.")
\* the file name of an executable project, kept by copy and paste
OriginalFilenameExe == StrLit("Mile.Xaml.exe")
MILE_PROJECT_ORIGINAL_FILENAME == StrLit("Mile.Xaml.dll")
MILE_PROJECT_PRODUCT_NAME == StrLit("Mile.Xaml")

-----------------------------------------------------------------------------
(* Directives *)

Ifndef(n) == [op |-> "ifndef", name |-> n, body |-> Empty]
Define(n, b) == [op |-> "define", name |-> n, body |-> b]
Endif == [op |-> "endif", name |-> "", body |-> Empty]
Include(f) == [op |-> "include", name |-> f, body |-> Empty]

GuardName == "MILE_PROJECT_PROPERTIES"
TagName == "MILE_PROJECT_VERSION_TAG"
VersionHeader == "Mile.Project.Version.h"

VersionNames ==
    << "MILE_PROJECT_VERSION_MAJOR", "MILE_PROJECT_VERSION_MINOR",
       "MILE_PROJECT_VERSION_BUILD", "MILE_PROJECT_VERSION_REVISION" >>

StringNames ==
    { "MILE_PROJECT_COMPANY_NAME", "MILE_PROJECT_FILE_DESCRIPTION",
      "MILE_PROJECT_INTERNAL_NAME", "MILE_PROJECT_LEGAL_COPYRIGHT",
      "MILE_PROJECT_ORIGINAL_FILENAME", "MILE_PROJECT_PRODUCT_NAME" }

Range(s) == { s[i] : i \in DOMAIN s }

PropertyNames == Range(VersionNames) \cup StringNames

\* every name the header mentions, commented-out tag included
Names == PropertyNames \cup {GuardName, TagName}

PropertyDefines ==
    << Define("MILE_PROJECT_VERSION_MAJOR", MILE_PROJECT_VERSION_MAJOR),
       Define("MILE_PROJECT_VERSION_MINOR", MILE_PROJECT_VERSION_MINOR),
       Define("MILE_PROJECT_VERSION_BUILD", MILE_PROJECT_VERSION_BUILD),
       Define("MILE_PROJECT_VERSION_REVISION", MILE_PROJECT_VERSION_REVISION),
       Define("MILE_PROJECT_COMPANY_NAME", MILE_PROJECT_COMPANY_NAME),
       Define("MILE_PROJECT_FILE_DESCRIPTION", MILE_PROJECT_FILE_DESCRIPTION),
       Define("MILE_PROJECT_INTERNAL_NAME", MILE_PROJECT_INTERNAL_NAME),
       Define("MILE_PROJECT_LEGAL_COPYRIGHT", MILE_PROJECT_LEGAL_COPYRIGHT),
       Define("MILE_PROJECT_ORIGINAL_FILENAME", MILE_PROJECT_ORIGINAL_FILENAME),
       Define("MILE_PROJECT_PRODUCT_NAME", MILE_PROJECT_PRODUCT_NAME) >>

\* Faulty variants of the header, each one slip away from the file.

\* the original file name defined under the name of the internal name
HeaderDuplicateName ==
    << Ifndef(GuardName), Define(GuardName, MILE_PROJECT_PROPERTIES) >>
    \o [i \in DOMAIN PropertyDefines |->
           IF PropertyDefines[i].name = "MILE_PROJECT_ORIGINAL_FILENAME"
           THEN Define("MILE_PROJECT_INTERNAL_NAME",
                       MILE_PROJECT_ORIGINAL_FILENAME)
           ELSE PropertyDefines[i]]
    \o << Endif, Include(VersionHeader) >>

\* line 19 not commented out
HeaderWithTag ==
    << Ifndef(GuardName), Define(GuardName, MILE_PROJECT_PROPERTIES) >>
    \o SubSeq(PropertyDefines, 1, 4)
    \o << Define(TagName, MILE_PROJECT_VERSION_TAG) >>
    \o SubSeq(PropertyDefines, 5, Len(PropertyDefines))
    \o << Endif, Include(VersionHeader) >>

\* a second header pulled in at the end
HeaderExtraInclude ==
    << Ifndef(GuardName), Define(GuardName, MILE_PROJECT_PROPERTIES) >>
    \o PropertyDefines
    \o << Endif, Include(VersionHeader), Include("Windows.h") >>

\* the #endif of line 34 lost
HeaderMissingEndif ==
    << Ifndef(GuardName), Define(GuardName, MILE_PROJECT_PROPERTIES) >>
    \o PropertyDefines
    \o << Include(VersionHeader) >>

\* the #include of line 36 written before the #endif of line 34
HeaderIncludeInsideGuard ==
    << Ifndef(GuardName), Define(GuardName, MILE_PROJECT_PROPERTIES) >>
    \o PropertyDefines
    \o << Include(VersionHeader), Endif >>

\* The directives of the file in order (comments and blank lines dropped,
\* backslash-newline continuations joined).
Header ==
    << Ifndef(GuardName), Define(GuardName, MILE_PROJECT_PROPERTIES) >>
    \o PropertyDefines
    \o << Endif, Include(VersionHeader) >>

-----------------------------------------------------------------------------
(* The preprocessor *)

\* a directive is processed only when every enclosing group is
Active == \A i \in DOMAIN conds : conds[i]

InHeader == pc \in DOMAIN Header
Current == Header[pc]

Defined(n) == n \in DOMAIN macros

\* the macro table with n (re)defined as b
WithMacro(n, b) ==
    [m \in DOMAIN macros \cup {n} |-> IF m = n THEN b ELSE macros[m]]

Init ==
    /\ macros = << >>
    /\ pc = 0
    /\ conds = << >>
    /\ inclusions = 0
    /\ defCount = [n \in Names |-> 0]
    /\ includeLog = << >>
    /\ diag = {}
    /\ lastRead = << >>
    /\ fileVersion = << >>

\* the translation unit reaches an #include of the header
BeginInclusion ==
    /\ pc = 0
    /\ inclusions < MaxInclusions
    /\ inclusions' = inclusions + 1
    /\ pc' = 1
    /\ UNCHANGED <<macros, conds, defCount, includeLog, diag, lastRead,
                   fileVersion>>

\* #ifndef NAME opens a group, processed iff NAME is not defined
IfndefStep ==
    /\ InHeader
    /\ Current.op = "ifndef"
    /\ conds' = Append(conds, Active /\ ~Defined(Current.name))
    /\ pc' = pc + 1
    /\ UNCHANGED <<macros, inclusions, defCount, includeLog, diag, lastRead,
                   fileVersion>>

\* #define NAME body in a processed group.  Defining a macro again with a
\* different replacement list is diagnosed and the new definition wins.
DefineStep ==
    /\ InHeader
    /\ Current.op = "define"
    /\ Active
    /\ macros' = WithMacro(Current.name, Current.body)
    /\ defCount' = [defCount EXCEPT ![Current.name] = @ + 1]
    /\ diag' = IF Defined(Current.name) /\ macros[Current.name] # Current.body
               THEN diag \cup {"macro redefinition"}
               ELSE diag
    /\ pc' = pc + 1
    /\ UNCHANGED <<conds, inclusions, includeLog, lastRead, fileVersion>>

\* a #define or #include in a skipped group does nothing
SkipStep ==
    /\ InHeader
    /\ Current.op \in {"define", "include"}
    /\ ~Active
    /\ pc' = pc + 1
    /\ UNCHANGED <<macros, conds, inclusions, defCount, includeLog, diag,
                   lastRead, fileVersion>>

\* #endif closes the innermost group
EndifStep ==
    /\ InHeader
    /\ Current.op = "endif"
    /\ IF conds = << >>
       THEN /\ diag' = diag \cup {"#endif without #if"}
            /\ conds' = conds
       ELSE /\ diag' = diag
            /\ conds' = SubSeq(conds, 1, Len(conds) - 1)
    /\ pc' = pc + 1
    /\ UNCHANGED <<macros, inclusions, defCount, includeLog, lastRead,
                   fileVersion>>

\* #include <file> in a processed group: the file is processed here
IncludeStep ==
    /\ InHeader
    /\ Current.op = "include"
    /\ Active
    /\ includeLog' = Append(includeLog, Current.name)
    /\ pc' = pc + 1
    /\ UNCHANGED <<macros, conds, inclusions, defCount, diag, lastRead,
                   fileVersion>>

\* the end of the header: a group still open is diagnosed
EndOfFile ==
    /\ pc = Len(Header) + 1
    /\ diag' = IF conds # << >> THEN diag \cup {"unterminated #if"} ELSE diag
    /\ conds' = << >>
    /\ pc' = 0
    /\ UNCHANGED <<macros, inclusions, defCount, includeLog, lastRead,
                   fileVersion>>

-----------------------------------------------------------------------------
(* The build tool *)

\* the value the tool gets for a name: its replacement token when the name
\* is a macro, the name itself otherwise
Expand(n) == IF Defined(n) THEN macros[n] ELSE Identifier(n)

\* the tool reads one constant, outside the header
Read(n) ==
    /\ pc = 0
    /\ lastRead' = <<n, Expand(n)>>
    /\ UNCHANGED <<macros, pc, conds, inclusions, defCount, includeLog, diag,
                   fileVersion>>

\* a version resource holds each version component in 16 bits
WordBits == 16
Word16(v) == v % (2 ^ WordBits)

\* the tool stamps the four-part version into the version resource
StampVersion ==
    /\ pc = 0
    /\ \A i \in DOMAIN VersionNames :
           Defined(VersionNames[i]) /\ macros[VersionNames[i]].kind = "int"
    /\ fileVersion' =
           [i \in DOMAIN VersionNames |-> Word16(macros[VersionNames[i]].val)]
    /\ UNCHANGED <<macros, pc, conds, inclusions, defCount, includeLog, diag,
                   lastRead>>

-----------------------------------------------------------------------------

Next ==
    \/ BeginInclusion
    \/ IfndefStep
    \/ DefineStep
    \/ SkipStep
    \/ EndifStep
    \/ IncludeStep
    \/ EndOfFile
    \/ \E n \in Names : Read(n)
    \/ StampVersion

Spec == Init /\ [][Next]_vars

-----------------------------------------------------------------------------
(* ProjectProperties: the record the macros of the header make up *)

Absent == [kind |-> "absent", val |-> ""]

Property(n) == IF Defined(n) THEN macros[n] ELSE Absent

ProjectProperties ==
    [ versionMajor     |-> Property("MILE_PROJECT_VERSION_MAJOR"),
      versionMinor     |-> Property("MILE_PROJECT_VERSION_MINOR"),
      versionBuild     |-> Property("MILE_PROJECT_VERSION_BUILD"),
      versionRevision  |-> Property("MILE_PROJECT_VERSION_REVISION"),
      versionTag       |-> Property("MILE_PROJECT_VERSION_TAG"),
      companyName      |-> Property("MILE_PROJECT_COMPANY_NAME"),
      fileDescription  |-> Property("MILE_PROJECT_FILE_DESCRIPTION"),
      internalName     |-> Property("MILE_PROJECT_INTERNAL_NAME"),
      legalCopyright   |-> Property("MILE_PROJECT_LEGAL_COPYRIGHT"),
      originalFilename |-> Property("MILE_PROJECT_ORIGINAL_FILENAME"),
      productName      |-> Property("MILE_PROJECT_PRODUCT_NAME") ]

VersionFields ==
    {"versionMajor", "versionMinor", "versionBuild", "versionRevision"}

StringFields ==
    {"companyName", "fileDescription", "internalName", "legalCopyright",
     "originalFilename", "productName"}

\* the header has been included at least once and processed to its end
Completed == inclusions >= 1 /\ pc = 0

-----------------------------------------------------------------------------
(* Properties *)

\* C1: once the header has been processed, the constants have the release
\* values: version 1.0.360.0, company "Project Mile", description, internal
\* and product name "Mile.Xaml", the copyright line, file "Mile.Xaml.dll".
C1_ReleaseValues ==
    Completed =>
        /\ ProjectProperties.versionMajor = IntLit(1)
        /\ ProjectProperties.versionMinor = IntLit(0)
        /\ ProjectProperties.versionBuild = IntLit(360)
        /\ ProjectProperties.versionRevision = IntLit(0)
        /\ ProjectProperties.companyName = StrLit("Project Mile")
        /\ ProjectProperties.fileDescription = StrLit("Mile.Xaml")
        /\ ProjectProperties.internalName = StrLit("Mile.Xaml")
        /\ ProjectProperties.legalCopyright =
               StrLit("© Project Mile. All rights reserved.")
        /\ ProjectProperties.originalFilename = StrLit("Mile.Xaml.dll")
        /\ ProjectProperties.productName = StrLit("Mile.Xaml")

\* the build tool has read the build number after an inclusion
C1_Witness ==
    /\ Completed
    /\ lastRead = <<"MILE_PROJECT_VERSION_BUILD", IntLit(360)>>

\* C2: a macro, once defined, stays defined with the value it was first
\* given, whatever step comes next: a read, a stamp, a directive of a
\* first or of a repeated inclusion.
C2_Immutable ==
    [][\A n \in DOMAIN macros : n \in DOMAIN macros' /\ macros'[n] = macros[n]]_vars

\* a second inclusion has passed the #define lines and the tool has read
C2_Witness ==
    /\ inclusions >= 2
    /\ pc = 0
    /\ lastRead # << >>
    /\ PropertyNames \subseteq DOMAIN macros

\* C3: the record has the eleven fields; after an inclusion every field but
\* versionTag is defined, the four version fields by integers and the other
\* six by strings, and the header defines nothing else but its guard;
\* versionTag is never defined.
C3_Fields ==
    /\ DOMAIN ProjectProperties = VersionFields \cup StringFields \cup {"versionTag"}
    /\ ProjectProperties.versionTag = Absent
    /\ Completed =>
        /\ \A f \in VersionFields : ProjectProperties[f].kind = "int"
        /\ \A f \in StringFields : ProjectProperties[f].kind = "string"
        /\ DOMAIN macros = PropertyNames \cup {GuardName}

\* the tool has looked for the tag after an inclusion and found none
C3_Witness ==
    /\ Completed
    /\ lastRead = <<TagName, Identifier(TagName)>>

\* C4 as claimed: the header does nothing but define its guard and the ten
\* constants; in particular it includes no file.
C4_OnlyDefines ==
    /\ DOMAIN macros \subseteq PropertyNames \cup {GuardName}
    /\ includeLog = << >>

\* C4 as amended: the header does nothing but define its guard and the ten
\* constants and include Mile.Project.Version.h, once every time its end is
\* reached.
C4_DefinesAndVersionHeader ==
    /\ DOMAIN macros \subseteq PropertyNames \cup {GuardName}
    /\ Range(includeLog) \subseteq {VersionHeader}
    /\ Len(includeLog) <= inclusions
    /\ Completed => Len(includeLog) = inclusions

\* the header has been processed to its end and has included the file
C4_Witness ==
    /\ Completed
    /\ includeLog # << >>
    /\ DOMAIN macros = PropertyNames \cup {GuardName}

C6_GuardedOnce ==
    /\ \A n \in PropertyNames : defCount[n] <= 1
    /\ (inclusions >= 2 \/ Completed) => \A n \in PropertyNames : defCount[n] = 1
    /\ Len(includeLog) = IF InHeader THEN inclusions - 1 ELSE inclusions
    /\ includeLog # << >> => PropertyNames \subseteq DOMAIN macros

\* the last of several inclusions has been processed to its end
C6_Witness ==
    /\ Completed
    /\ inclusions = MaxInclusions
    /\ Len(includeLog) = MaxInclusions
    /\ \A n \in PropertyNames : defCount[n] = 1

\* C7: a defined version component lies in 0..65535, and the stamped
\* version is the four components themselves, 1.0.360.0.
C7_FitsWord ==
    /\ \A i \in DOMAIN VersionNames :
           Defined(VersionNames[i]) =>
               /\ macros[VersionNames[i]].val >= 0
               /\ macros[VersionNames[i]].val <= 65535
    /\ fileVersion # << >> =>
           /\ fileVersion = <<1, 0, 360, 0>>
           /\ \A i \in DOMAIN VersionNames :
                  fileVersion[i] = macros[VersionNames[i]].val

\* the version has been stamped
C7_Witness ==
    /\ Completed
    /\ fileVersion # << >>

\* C8: after an inclusion, the description, the internal name and the
\* product name are one string, and the original file name is the internal
\* name followed by ".dll".
C8_NamesConsistent ==
    Completed =>
        /\ ProjectProperties.fileDescription = ProjectProperties.internalName
        /\ ProjectProperties.productName = ProjectProperties.internalName
        /\ ProjectProperties.internalName.kind = "string"
        /\ ProjectProperties.originalFilename =
               StrLit(ProjectProperties.internalName.val \o ".dll")

\* the tool has read the original file name after an inclusion
C8_Witness ==
    /\ Completed
    /\ lastRead # << >>
    /\ lastRead[1] = "MILE_PROJECT_ORIGINAL_FILENAME"
    /\ lastRead[2].kind = "string"

====
